---- MODULE Spec2Model ----
(***************************************************************************)
(* Model of the streaming decoder of openai-responses-api-go:              *)
(*   client/responses.go  ResponsesStream.Recv, ResponsesStream.Err,       *)
(*                        ResponsesStreamAccumulator.AddChunk / ToResponse,*)
(*                        Responses.Create                                 *)
(*   openai.go            the document types                               *)
(*                                                                         *)
(* Go strings that are only compared (ids, roles, types, names) are TLA+   *)
(* strings, "" being the empty string.  Go strings that are concatenated   *)
(* (Message.Content, Function.Arguments) are sequences of characters,      *)
(* << >> being the empty string, so that += is \o and prefixes can be      *)
(* stated.  A nil pointer or an absent value is the empty sequence and a   *)
(* present one a one-element sequence.  A JSON number is kept as a count   *)
(* of halves (3 is 1.5), so that the float64 -> int conversions truncate.  *)
(***************************************************************************)
EXTENDS Integers, Sequences, FiniteSets, TLC

VARIABLES
    acc,        \* the ResponsesStreamAccumulator
    panicked,   \* AddChunk raised a run-time panic (index out of range)
    err,        \* ResponsesStream.err: "nil", "EOF", "decode" or "transport"
    doc,        \* << >>, or <<d>> with d the document ToResponse returned
                \* last, as its holder reads it now
    shared,     \* per choice of that document: its ToolCalls slice still has
                \* the backing array of the accumulator's
    docCalls,   \* history: ToResponse calls since the last AddChunk (0, 1, 2 for more)
    hist,       \* history: the AddChunk calls so far, oldest first, each with
                \* the chunk, the event it was decoded from and the
                \* accumulator before the call
    input,      \* what the reader's ReadString calls give, in order, as far
                \* as the transport has delivered it
    pos,        \* how many of them Recv has consumed
    out         \* history: the Recv calls that returned, oldest first, each
                \* with the chunk and error returned, the reads it consumed
                \* and s.err before the call

vars == <<acc, panicked, err, doc, shared, docCalls, hist, input, pos, out>>

\* ------------------------------------------------------------------ bounds

\* AddChunk calls in one behaviour.
MaxSteps == 3
\* Largest choice index an input refers to.
MaxIndex == 2
\* Reads the transport delivers in one behaviour.
MaxReads == 3

\* ------------------------------------------------------- document types

\* models.ResponseToolCall
ToolCall(id, callID, type, name, arguments) ==
    [ID |-> id, CallID |-> callID, Type |-> type,
     Function |-> [Name |-> name, Arguments |-> arguments]]

\* models.ResponseStreamDelta
StreamDelta(role, content, toolCalls) ==
    [Role |-> role, Content |-> content, ToolCalls |-> toolCalls]

\* models.ResponseStreamChoice
StreamChoice(index, delta, finishReason) ==
    [Index |-> index, Delta |-> delta, FinishReason |-> finishReason]

\* models.ResponseStreamResponse
StreamResponse(id, object, created, model, choices, usage) ==
    [ID |-> id, Object |-> object, Created |-> created, Model |-> model,
     Choices |-> choices, Usage |-> usage]

\* models.Usage
MkUsage(p, c, t) ==
    [PromptTokens |-> p, CompletionTokens |-> c, TotalTokens |-> t]

\* The zero value &models.ResponseStreamResponse{} (responses.go:178).
EmptyChunk == StreamResponse("", "", 0, "", << >>, << >>)

\* models.ResponseChoice{Index: i, Message: {Role: "assistant"}, FinishReason: ""}
DefaultChoice(i) ==
    [Index |-> i, Message |-> [Role |-> "assistant", Content |-> << >>],
     FinishReason |-> "", ToolCalls |-> << >>]

\* The zero value &ResponsesStreamAccumulator{} the callers construct.
EmptyAccumulator ==
    [ID |-> "", Object |-> "", Created |-> 0, Model |-> "",
     Choices |-> << >>, Usage |-> << >>]

\* ------------------------------------------------------------- AddChunk

\* InitFromChunk without the test a.ID == "": every chunk with an ID
\* initialises again.
InitFromChunkEveryID(a, chunk) ==
    IF chunk.ID # ""
    THEN [a EXCEPT
            !.ID = chunk.ID, !.Object = chunk.Object,
            !.Created = chunk.Created, !.Model = chunk.Model,
            !.Choices =
                IF Len(chunk.Choices) > 0
                THEN [i \in 1..Len(chunk.Choices) |->
                        [Index |-> chunk.Choices[i].Index,
                         Message |-> [Role |-> "assistant", Content |-> << >>],
                         FinishReason |-> "", ToolCalls |-> << >>]]
                ELSE <<[Index |-> 0,
                        Message |-> [Role |-> "assistant", Content |-> << >>],
                        FinishReason |-> "", ToolCalls |-> << >>]>>]
    ELSE a

\* responses.go:440-466: the first chunk with an ID sets the scalars and
\* re-creates the choice list, one slot per choice of the chunk, or one slot.
InitFromChunk(a, chunk) ==
    IF a.ID = "" /\ chunk.ID # ""
    THEN [a EXCEPT
            !.ID = chunk.ID, !.Object = chunk.Object,
            !.Created = chunk.Created, !.Model = chunk.Model,
            !.Choices =
                IF Len(chunk.Choices) > 0
                THEN [i \in 1..Len(chunk.Choices) |->
                        DefaultChoice(chunk.Choices[i].Index)]
                ELSE <<DefaultChoice(0)>>]
    ELSE a

\* StoreUsage that keeps the first usage.
StoreUsageFirstWins(a, chunk) ==
    IF chunk.Usage # << >> /\ a.Usage = << >>
    THEN [a EXCEPT !.Usage = chunk.Usage] ELSE a

\* responses.go:468-471
StoreUsage(a, chunk) ==
    IF chunk.Usage # << >> THEN [a EXCEPT !.Usage = chunk.Usage] ELSE a

\* responses.go:473-482
EnsureOneChoice(a, chunk) ==
    IF Len(a.Choices) = 0 /\ Len(chunk.Choices) > 0
    THEN [a EXCEPT !.Choices = <<DefaultChoice(0)>>]
    ELSE a

\* PadChoices with the loop test off by one: one slot too many.
RECURSIVE PadChoicesOneMore(_, _)
PadChoicesOneMore(choices, index) ==
    IF Len(choices) <= index + 1
    THEN PadChoicesOneMore(
            Append(choices,
                   [Index |-> Len(choices),
                    Message |-> [Role |-> "assistant", Content |-> << >>],
                    FinishReason |-> "", ToolCalls |-> << >>]),
            index)
    ELSE choices

\* responses.go:486-493: append default slots while len(a.Choices) <= index.
\* The slot at position p (0-based) is created with Index p.
RECURSIVE PadChoices(_, _)
PadChoices(choices, index) ==
    IF Len(choices) <= index
    THEN PadChoices(Append(choices, DefaultChoice(Len(choices))), index)
    ELSE choices

\* FindToolCall that takes the empty ID for no identity.
FindToolCallSkipsEmpty(toolCalls, id) ==
    IF id # "" /\ \E i \in 1..Len(toolCalls) : toolCalls[i].ID = id
    THEN CHOOSE i \in 1..Len(toolCalls) :
            /\ toolCalls[i].ID = id
            /\ \A j \in 1..(i - 1) : toolCalls[j].ID # id
    ELSE 0

\* responses.go:511-518: position (1-based) of the first tool call with the
\* delta's ID, 0 for the code's -1.
FindToolCall(toolCalls, id) ==
    IF \E i \in 1..Len(toolCalls) : toolCalls[i].ID = id
    THEN CHOOSE i \in 1..Len(toolCalls) :
            /\ toolCalls[i].ID = id
            /\ \A j \in 1..(i - 1) : toolCalls[j].ID # id
    ELSE 0

\* UpdateToolCall that takes the delta's fields whether empty or not.
UpdateToolCallBlanking(tc, d) ==
    [tc EXCEPT
        !.Type = d.Type,
        !.Function.Name = d.Function.Name,
        !.Function.Arguments = d.Function.Arguments]

\* UpdateToolCall that also takes the delta's CallID when it has one.
UpdateToolCallWithCallID(tc, d) ==
    [tc EXCEPT
        !.CallID = IF d.CallID # "" THEN d.CallID ELSE @,
        !.Type = IF d.Type # "" THEN d.Type ELSE @,
        !.Function.Name = IF d.Function.Name # "" THEN d.Function.Name ELSE @,
        !.Function.Arguments = IF d.Function.Arguments # << >>
                               THEN d.Function.Arguments ELSE @]

\* UpdateToolCall with += for the arguments, as for the content.
UpdateToolCallAppending(tc, d) ==
    [tc EXCEPT
        !.Type = IF d.Type # "" THEN d.Type ELSE @,
        !.Function.Name = IF d.Function.Name # "" THEN d.Function.Name ELSE @,
        !.Function.Arguments = @ \o d.Function.Arguments]

\* responses.go:534-545: the update of an existing tool call.
UpdateToolCall(tc, d) ==
    LET t1 == IF d.Type # "" THEN [tc EXCEPT !.Type = d.Type] ELSE tc
        t2 == IF d.Function.Name # ""
              THEN [t1 EXCEPT !.Function.Name = d.Function.Name] ELSE t1
    IN  IF d.Function.Arguments # << >>
        THEN [t2 EXCEPT !.Function.Arguments = d.Function.Arguments] ELSE t2

\* responses.go:505-546: one tool call delta merged into a tool call list.
MergeToolCall(toolCalls, d) ==
    LET i == FindToolCall(toolCalls, d.ID)
    IN  IF i = 0
        THEN Append(toolCalls,
                    ToolCall(d.ID, d.CallID, d.Type,
                             d.Function.Name, d.Function.Arguments))
        ELSE [toolCalls EXCEPT ![i] = UpdateToolCall(toolCalls[i], d)]

\* responses.go:504-547: the loop over choice.Delta.ToolCalls.
RECURSIVE MergeToolCalls(_, _)
MergeToolCalls(toolCalls, deltas) ==
    IF deltas = << >> THEN toolCalls
    ELSE MergeToolCalls(MergeToolCall(toolCalls, Head(deltas)), Tail(deltas))

\* The statements of the loop body that index a.Choices[choice.Index]
\* (responses.go:497, 500, 507, 551) run only under these conditions.
TouchesChoice(choice) ==
    \/ choice.Delta.Role # ""
    \/ choice.Delta.Content # << >>
    \/ Len(choice.Delta.ToolCalls) > 0
    \/ choice.FinishReason # ""

\* UpdateChoice with = in place of += for the content.
UpdateChoiceAssigning(slot, choice) ==
    [slot EXCEPT
        !.Message.Role = IF choice.Delta.Role # "" THEN choice.Delta.Role ELSE @,
        !.Message.Content = IF choice.Delta.Content # << >>
                            THEN choice.Delta.Content ELSE @,
        !.ToolCalls = MergeToolCalls(@, choice.Delta.ToolCalls),
        !.FinishReason = IF choice.FinishReason # ""
                         THEN choice.FinishReason ELSE @]

\* responses.go:495-552 on the slot the choice indexes.
UpdateChoice(slot, choice) ==
    LET s1 == IF choice.Delta.Role # ""
              THEN [slot EXCEPT !.Message.Role = choice.Delta.Role] ELSE slot
        s2 == IF choice.Delta.Content # << >>
              THEN [s1 EXCEPT !.Message.Content = @ \o choice.Delta.Content]
              ELSE s1
        s3 == [s2 EXCEPT !.ToolCalls = MergeToolCalls(@, choice.Delta.ToolCalls)]
    IN  IF choice.FinishReason # ""
        THEN [s3 EXCEPT !.FinishReason = choice.FinishReason] ELSE s3

\* responses.go:485-553, one iteration.  st = [a, panic].  The padding loop
\* does nothing for a negative index, and the first indexing of
\* a.Choices[choice.Index] then panics (index out of range) before anything
\* of this iteration is written.
MergeChoice(st, choice) ==
    IF st.panic THEN st
    ELSE IF choice.Index < 0
    THEN [st EXCEPT !.panic = TouchesChoice(choice)]
    ELSE LET padded == PadChoices(st.a.Choices, choice.Index)
             p == choice.Index + 1
         IN  [st EXCEPT !.a.Choices =
                    [padded EXCEPT ![p] = UpdateChoice(padded[p], choice)]]

\* responses.go:485: the loop over chunk.Choices.
RECURSIVE MergeChoices(_, _)
MergeChoices(st, choices) ==
    IF choices = << >> THEN st
    ELSE MergeChoices(MergeChoice(st, Head(choices)), Tail(choices))

\* responses.go:438-554: ResponsesStreamAccumulator.AddChunk.  The result is
\* the accumulator as the call leaves it and whether the call panicked.
AddChunk(a, chunk) ==
    MergeChoices(
        [a |-> EnsureOneChoice(StoreUsage(InitFromChunk(a, chunk), chunk), chunk),
         panic |-> FALSE],
        chunk.Choices)

\* ----------------------------------------------------------- ToResponse

\* responses.go:559-570: the choice copied into the document; the tool calls
\* are attached only when there are some.
DocChoice(choice) ==
    [Index |-> choice.Index, Message |-> choice.Message,
     FinishReason |-> choice.FinishReason,
     ToolCalls |-> IF Len(choice.ToolCalls) > 0 THEN choice.ToolCalls ELSE << >>]

\* responses.go:558-579: the models.ResponseResponse that ToResponse builds;
\* OutputText is not set and keeps its zero value.
Document(a) ==
    [ID |-> a.ID, Object |-> a.Object, Created |-> a.Created,
     Model |-> a.Model,
     Choices |-> [i \in 1..Len(a.Choices) |-> DocChoice(a.Choices[i])],
     Usage |-> a.Usage,
     OutputText |-> << >>]

\* ToResponse moving the choices out of the accumulator it materialises.
ToResponseDraining(a) == [doc |-> Document(a), a |-> [a EXCEPT !.Choices = << >>]]

\* responses.go:557-580: ResponsesStreamAccumulator.ToResponse.  The result
\* is the document returned and the receiver as the call leaves it: the
\* method assigns to no field of a.
ToResponse(a) == [doc |-> Document(a), a |-> a]

\* responses.go:567-569: choices[i].ToolCalls = choice.ToolCalls copies the
\* slice header, so the document's tool calls of a choice that has some are
\* in the accumulator's backing array.
SharedBy(a) == [i \in 1..Len(a.Choices) |-> Len(a.Choices[i].ToolCalls) > 0]

\* responses.go:505-546 as the holder of a document reads it: view is the
\* document's tool call list of one choice, attached whether it still has the
\* accumulator's backing array, toolCalls the accumulator's list.  An update
\* of an existing tool call (536-544) is written in place and read through
\* the view; an append (522) leaves the view's length, and moves the
\* accumulator's list to a new array when the old one is full (grow).
RECURSIVE SharedToolCalls(_, _, _, _, _)
SharedToolCalls(view, attached, toolCalls, deltas, grow) ==
    IF deltas = << >> THEN [view |-> view, attached |-> attached]
    ELSE LET i == FindToolCall(toolCalls, Head(deltas).ID)
             merged == MergeToolCall(toolCalls, Head(deltas))
         IN  IF i = 0
             THEN SharedToolCalls(view, attached /\ ~grow, merged,
                                  Tail(deltas), grow)
             ELSE SharedToolCalls(
                    IF attached /\ i <= Len(view)
                    THEN [view EXCEPT ![i] = merged[i]] ELSE view,
                    attached, merged, Tail(deltas), grow)

\* responses.go:485-553 as the holder of the document d reads it: the loop
\* over the chunk's choices, a the accumulator before each iteration.
RECURSIVE SharedChoices(_, _, _, _, _)
SharedChoices(d, sh, a, choices, grow) ==
    IF choices = << >> THEN [doc |-> d, shared |-> sh]
    ELSE LET c == Head(choices)
             p == c.Index + 1
             st == MergeChoice([a |-> a, panic |-> FALSE], c)
         IN  IF st.panic THEN [doc |-> d, shared |-> sh]
             ELSE IF p >= 1 /\ p <= Len(d.Choices) /\ p <= Len(a.Choices)
             THEN LET r == SharedToolCalls(d.Choices[p].ToolCalls, sh[p],
                                           a.Choices[p].ToolCalls,
                                           c.Delta.ToolCalls, grow)
                  IN  SharedChoices(
                        [d EXCEPT !.Choices[p].ToolCalls = r.view],
                        [sh EXCEPT ![p] = r.attached],
                        st.a, Tail(choices), grow)
             ELSE SharedChoices(d, sh, st.a, Tail(choices), grow)

\* responses.go:438-554 as the holder of the document d reads it.  The
\* initialisation block (446-465) gives the accumulator new choices, which
\* share nothing with d; the document's scalars, messages and usage pointer
\* are copies that AddChunk does not write through.
SharedAfter(d, sh, a, chunk, grow) ==
    IF a.ID = "" /\ chunk.ID # ""
    THEN [doc |-> d, shared |-> [i \in 1..Len(sh) |-> FALSE]]
    ELSE SharedChoices(d, sh, EnsureOneChoice(StoreUsage(a, chunk), chunk),
                       chunk.Choices, grow)

\* responses.go:33-46: Responses.Create on the document the endpoint's body
\* decoded to: OutputText becomes the first choice's content when that is
\* not empty.
Create(response) ==
    IF Len(response.Choices) > 0 /\ response.Choices[1].Message.Content # << >>
    THEN [response EXCEPT !.OutputText = response.Choices[1].Message.Content]
    ELSE response

\* ----------------------------------------------------------------- Recv

\* m[k].(string) and the like: ok is false when the key is absent (a value
\* of another JSON type behaves as an absent one and is not modelled apart).
Has(m, k) == k \in DOMAIN m

\* The blank-identifier form v, _ := m[k].(string) for a compared string.
Str(m, k) == IF Has(m, k) THEN m[k] ELSE ""

\* The same for a string that is later concatenated.
Txt(m, k) == IF Has(m, k) THEN m[k] ELSE << >>

\* int(x) / int64(x) of a float64 given in halves: truncation toward zero.
IntOf(h) == IF h >= 0 THEN h \div 2 ELSE -((-h) \div 2)

\* v, _ := m[k].(float64); int(v)
Num(m, k) == IF Has(m, k) THEN IntOf(m[k]) ELSE 0

\* A chunk with one choice that carries one tool call.
ToolCallChunk(index, toolCall) ==
    [EmptyChunk EXCEPT !.Choices =
        <<StreamChoice(index, StreamDelta("", << >>, <<toolCall>>), "")>>]

\* responses.go:187-194 and 378-384: the identity fields of "response".
WithIdentity(response, respData) ==
    [response EXCEPT
        !.ID = Str(respData, "id"),
        !.Object = Str(respData, "object"),
        !.Created = IF Has(respData, "created_at")
                    THEN IntOf(respData["created_at"]) ELSE @,
        !.Model = Str(respData, "model")]

\* responses.go:386-396
WithUsage(response, respData) ==
    IF Has(respData, "usage")
    THEN [response EXCEPT !.Usage =
            <<MkUsage(Num(respData["usage"], "prompt_tokens"),
                      Num(respData["usage"], "completion_tokens"),
                      Num(respData["usage"], "total_tokens"))>>]
    ELSE response

\* A stream that response.incomplete does not end.
IsTerminalCompletedOnly(eventType) == eventType = "response.completed"

\* responses.go:376 (and 399-400): the event types that end the stream.
IsTerminal(eventType) ==
    eventType \in {"response.completed", "response.incomplete"}

\* responses.go:177-401: the switch on the event type, from the decoded JSON
\* object to the response under construction.
Decode(eventData) ==
    LET eventType == Str(eventData, "type")
        hasIndex == Has(eventData, "output_index")
        index == Num(eventData, "output_index")
        item == eventData["item"]
    IN  CASE eventType \in {"response.created", "response.in_progress"} ->
                IF Has(eventData, "response")
                THEN WithIdentity(EmptyChunk, eventData["response"])
                ELSE EmptyChunk
          [] eventType = "response.output_text.delta" ->
                [EmptyChunk EXCEPT !.Choices =
                    <<StreamChoice(0,
                        StreamDelta("", Txt(eventData, "delta"), << >>), "")>>]
          [] eventType = "response.output_item.added" ->
                IF Has(eventData, "item") /\ hasIndex
                   /\ Str(item, "type") = "function_call"
                THEN ToolCallChunk(index,
                        ToolCall(Str(item, "id"), Str(item, "call_id"),
                                 "function", Str(item, "name"), << >>))
                ELSE EmptyChunk
          [] eventType = "response.output_item.done" ->
                IF Has(eventData, "item") /\ hasIndex
                   /\ Str(item, "type") = "function_call"
                THEN ToolCallChunk(index,
                        ToolCall(Str(item, "id"), Str(item, "call_id"),
                                 "function", Str(item, "name"),
                                 Txt(item, "arguments")))
                ELSE EmptyChunk
          [] eventType \in {"response.file_search_call.in_progress",
                            "response.file_search_call.searching",
                            "response.file_search_call.completed"} ->
                IF hasIndex /\ Has(eventData, "item_id")
                THEN ToolCallChunk(index,
                        ToolCall(eventData["item_id"], "", "file_search",
                                 "", << >>))
                ELSE EmptyChunk
          [] eventType \in {"response.tool_call.created",
                            "response.tool_call.in_progress"} ->
                IF hasIndex
                THEN ToolCallChunk(index, ToolCall("", "", "", "", << >>))
                ELSE EmptyChunk
          [] eventType = "response.tool_call.id" ->
                IF Has(eventData, "id") /\ hasIndex
                THEN ToolCallChunk(index,
                        ToolCall(eventData["id"], "", "", "", << >>))
                ELSE EmptyChunk
          [] eventType = "response.function_call_arguments.delta" ->
                IF Has(eventData, "delta") /\ hasIndex /\ Has(eventData, "item_id")
                THEN ToolCallChunk(index,
                        ToolCall(eventData["item_id"], "", "", "",
                                 eventData["delta"]))
                ELSE EmptyChunk
          [] eventType = "response.function_call_arguments.done" ->
                IF Has(eventData, "arguments") /\ hasIndex
                   /\ Has(eventData, "item_id")
                THEN ToolCallChunk(index,
                        ToolCall(eventData["item_id"], "", "", "",
                                 eventData["arguments"]))
                ELSE EmptyChunk
          [] IsTerminal(eventType) ->
                IF Has(eventData, "response")
                THEN WithUsage(WithIdentity(EmptyChunk, eventData["response"]),
                               eventData["response"])
                ELSE EmptyChunk
          [] OTHER -> EmptyChunk

\* Recv that returns every decoded event.
IsSkippedNever(response) == FALSE

\* responses.go:403-406: the events Recv does not return.
IsSkipped(response) ==
    Len(response.Choices) = 0 /\ response.ID = "" /\ response.Usage = << >>

\* What one call of Recv gives back: the chunk (<< >> for nil), the error
\* returned, s.err afterwards, the event the chunk was decoded from, whether
\* the call returned within the reads it was given, and the reads it has left
\* in the reader.
RecvResult(chunk, e, sErr, event, returned, rest) ==
    [chunk |-> chunk, err |-> e, sErr |-> sErr, event |-> event,
     returned |-> returned, rest |-> rest]

\* Recv that passes over a payload it cannot decode.
RECURSIVE RecvSkippingMalformed(_, _)
RecvSkippingMalformed(sErr, reads) ==
    IF sErr # "nil" THEN RecvResult(<< >>, sErr, sErr, << >>, TRUE, reads)
    ELSE IF reads = << >>
    THEN RecvResult(<< >>, "nil", sErr, << >>, FALSE, reads)
    ELSE LET r == Head(reads)
             rest == Tail(reads)
         IN  CASE r.kind = "eof" ->
                    RecvResult(<< >>, "EOF", "EOF", << >>, TRUE, rest)
               [] r.kind = "ioerr" ->
                    RecvResult(<< >>, "transport", "transport", << >>, TRUE,
                               rest)
               [] r.kind \in {"blank", "other"} ->
                    RecvSkippingMalformed(sErr, rest)
               [] r.kind = "data" /\ r.payload = "[DONE]" ->
                    RecvResult(<< >>, "EOF", "EOF", << >>, TRUE, rest)
               [] r.kind = "data" /\ r.payload = "malformed" ->
                    RecvSkippingMalformed(sErr, rest)
               [] r.kind = "data" /\ r.payload = "json" ->
                    LET response == Decode(r.json)
                        after == IF IsTerminal(Str(r.json, "type"))
                                 THEN "EOF" ELSE sErr
                    IN  IF IsSkipped(response)
                        THEN RecvSkippingMalformed(after, rest)
                        ELSE RecvResult(<<response>>, "nil", after,
                                        <<r.json>>, TRUE, rest)

\* Recv without the test of s.err at its entry.
RECURSIVE RecvNotSticky(_, _)
RecvNotSticky(sErr, reads) ==
    IF reads = << >>
    THEN IF sErr # "nil"
         THEN RecvResult(<< >>, sErr, sErr, << >>, TRUE, reads)
         ELSE RecvResult(<< >>, "nil", sErr, << >>, FALSE, reads)
    ELSE LET r == Head(reads)
             rest == Tail(reads)
         IN  CASE r.kind = "eof" ->
                    RecvResult(<< >>, "EOF", "EOF", << >>, TRUE, rest)
               [] r.kind = "ioerr" ->
                    RecvResult(<< >>, "transport", "transport", << >>, TRUE,
                               rest)
               [] r.kind \in {"blank", "other"} -> RecvNotSticky(sErr, rest)
               [] r.kind = "data" /\ r.payload = "[DONE]" ->
                    RecvResult(<< >>, "EOF", "EOF", << >>, TRUE, rest)
               [] r.kind = "data" /\ r.payload = "malformed" ->
                    RecvResult(<< >>, "decode", "decode", << >>, TRUE, rest)
               [] r.kind = "data" /\ r.payload = "json" ->
                    LET response == Decode(r.json)
                        after == IF IsTerminal(Str(r.json, "type"))
                                 THEN "EOF" ELSE sErr
                    IN  IF IsSkipped(response)
                        THEN RecvNotSticky(after, rest)
                        ELSE RecvResult(<<response>>, "nil", after,
                                        <<r.json>>, TRUE, rest)

\* Recv that takes a blank line for the end of the stream.
RECURSIVE RecvBlankEnds(_, _)
RecvBlankEnds(sErr, reads) ==
    IF sErr # "nil" THEN RecvResult(<< >>, sErr, sErr, << >>, TRUE, reads)
    ELSE IF reads = << >>
    THEN RecvResult(<< >>, "nil", sErr, << >>, FALSE, reads)
    ELSE LET r == Head(reads)
             rest == Tail(reads)
         IN  CASE r.kind \in {"eof", "blank"} ->
                    RecvResult(<< >>, "EOF", "EOF", << >>, TRUE, rest)
               [] r.kind = "ioerr" ->
                    RecvResult(<< >>, "transport", "transport", << >>, TRUE,
                               rest)
               [] r.kind = "other" -> RecvBlankEnds(sErr, rest)
               [] r.kind = "data" /\ r.payload = "[DONE]" ->
                    RecvResult(<< >>, "EOF", "EOF", << >>, TRUE, rest)
               [] r.kind = "data" /\ r.payload = "malformed" ->
                    RecvResult(<< >>, "decode", "decode", << >>, TRUE, rest)
               [] r.kind = "data" /\ r.payload = "json" ->
                    LET response == Decode(r.json)
                        after == IF IsTerminal(Str(r.json, "type"))
                                 THEN "EOF" ELSE sErr
                    IN  IF IsSkipped(response)
                        THEN RecvBlankEnds(after, rest)
                        ELSE RecvResult(<<response>>, "nil", after,
                                        <<r.json>>, TRUE, rest)

\* responses.go:136-409: ResponsesStream.Recv with s.err = sErr, on the
\* results the reader's ReadString calls will have: a read is "eof" (io.EOF),
\* "ioerr" (another read error), or a line that after TrimSpace is "blank",
\* "other" (no "data: " prefix) or "data" with payload "[DONE]", "malformed"
\* (not a JSON object) or "json" with the decoded object.  A call that has
\* consumed every read without returning is still blocked in ReadString.
RECURSIVE Recv(_, _)
Recv(sErr, reads) ==
    IF sErr # "nil" THEN RecvResult(<< >>, sErr, sErr, << >>, TRUE, reads)
    ELSE IF reads = << >>
    THEN RecvResult(<< >>, "nil", sErr, << >>, FALSE, reads)
    ELSE LET r == Head(reads)
             rest == Tail(reads)
         IN  CASE r.kind = "eof" ->
                    RecvResult(<< >>, "EOF", "EOF", << >>, TRUE, rest)
               [] r.kind = "ioerr" ->
                    RecvResult(<< >>, "transport", "transport", << >>, TRUE,
                               rest)
               [] r.kind \in {"blank", "other"} -> Recv(sErr, rest)
               [] r.kind = "data" /\ r.payload = "[DONE]" ->
                    RecvResult(<< >>, "EOF", "EOF", << >>, TRUE, rest)
               [] r.kind = "data" /\ r.payload = "malformed" ->
                    RecvResult(<< >>, "decode", "decode", << >>, TRUE, rest)
               [] r.kind = "data" /\ r.payload = "json" ->
                    LET response == Decode(r.json)
                        after == IF IsTerminal(Str(r.json, "type"))
                                 THEN "EOF" ELSE sErr
                    IN  IF IsSkipped(response)
                        THEN Recv(after, rest)
                        ELSE RecvResult(<<response>>, "nil", after,
                                        <<r.json>>, TRUE, rest)

\* Err that reports whatever error is stored.
ErrReportsEOF(sErr) == sErr

\* responses.go:420-425: ResponsesStream.Err, io.EOF is not reported.
Err(sErr) == IF sErr = "EOF" THEN "nil" ELSE sErr

\* --------------------------------------------------------------- inputs

\* The identity events: response.created and response.in_progress with two
\* different ids (created_at 2.5 is truncated to 2).
IdentityEvents ==
    {[type |-> "response.created",
      response |-> [id |-> "r1", object |-> "response", created_at |-> 2,
                    model |-> "m1"]],
     [type |-> "response.in_progress",
      response |-> [id |-> "r2", object |-> "response", created_at |-> 5,
                    model |-> "m2"]]}

\* Text deltas; the code does not read their output_index.
TextEvents ==
    {[type |-> "response.output_text.delta", delta |-> <<"a">>, output_index |-> 0],
     [type |-> "response.output_text.delta", delta |-> <<"b">>, output_index |-> 2]}

\* Output items: a function call added and done, and an item of another type.
ItemEvents ==
    {[type |-> "response.output_item.added", output_index |-> 0,
      item |-> [type |-> "function_call", id |-> "x", call_id |-> "c1",
                name |-> "f"]],
     [type |-> "response.output_item.done", output_index |-> 0,
      item |-> [type |-> "function_call", id |-> "x", call_id |-> "c2",
                name |-> "g", arguments |-> <<"a", "b">>]],
     [type |-> "response.output_item.added", output_index |-> 0,
      item |-> [type |-> "message", id |-> "m"]]}

\* A file search marker at the largest index.
FileSearchEvents ==
    {[type |-> "response.file_search_call.searching",
      output_index |-> 2 * MaxIndex, item_id |-> "y"]}

\* Tool call events: at index 0, at index -1, and at index 1.5.
ToolCallEvents ==
    {[type |-> "response.tool_call.created", output_index |-> 0],
     [type |-> "response.tool_call.in_progress", output_index |-> -2],
     [type |-> "response.tool_call.id", id |-> "x", output_index |-> 0],
     [type |-> "response.tool_call.id", id |-> "y", output_index |-> 3]}

\* Argument fragments and full argument payloads (one of them empty).
ArgumentEvents ==
    {[type |-> "response.function_call_arguments.delta", delta |-> f,
      item_id |-> "x", output_index |-> 0] : f \in {<<"a">>, <<"b">>}}
    \cup
    {[type |-> "response.function_call_arguments.delta", delta |-> <<"a">>,
      item_id |-> "y", output_index |-> 2]}
    \cup
    {[type |-> "response.function_call_arguments.done", arguments |-> p,
      item_id |-> "x", output_index |-> 0] : p \in {<<"b">>, << >>}}

\* Terminal events: with id and usage, with an empty response, without one.
TerminalEvents ==
    {[type |-> "response.completed",
      response |-> [id |-> "r1", object |-> "response", created_at |-> 2,
                    model |-> "m1",
                    usage |-> [prompt_tokens |-> 2, completion_tokens |-> 4,
                               total_tokens |-> 6]]],
     [type |-> "response.incomplete", response |-> [status |-> "incomplete"]],
     [type |-> "response.completed"]}

\* Events with nothing to merge: an unknown type, no type at all.
IgnoredEvents ==
    {[type |-> "response.content_part.added"], [sequence_number |-> 2]}

Events ==
    IdentityEvents \cup TextEvents \cup ItemEvents \cup FileSearchEvents
    \cup ToolCallEvents \cup ArgumentEvents \cup TerminalEvents \cup IgnoredEvents

\* A "data: " line carrying a JSON object.
DataLine(e) == [kind |-> "data", payload |-> "json", json |-> e]

\* What one ReadString call can give.
Reads ==
    {DataLine(e) : e \in Events}
    \cup {[kind |-> "data", payload |-> "[DONE]"],
          [kind |-> "data", payload |-> "malformed"],
          [kind |-> "blank"], [kind |-> "other"],
          [kind |-> "eof"], [kind |-> "ioerr"]}

\* The reads that one call of Recv passes over without returning.
SkippedReads ==
    {[kind |-> "blank"], [kind |-> "other"]}
    \cup {DataLine(e) : e \in IgnoredEvents}

\* The reads one call of Recv consumes: one read, or a skipped one first.
ReadSeqs ==
    {<<r>> : r \in Reads}
    \cup {<<s, r>> : s \in SkippedReads,
                     r \in {DataLine(e) : e \in TextEvents \cup TerminalEvents}
                           \cup {[kind |-> "eof"]}}

\* The events of the streams that are read to their end.
StreamEvents ==
    {e \in IdentityEvents : e.type = "response.created"}
    \cup TextEvents
    \cup {e \in ItemEvents : e.item.type = "message"}
    \cup {e \in IgnoredEvents : Has(e, "type")}
    \cup TerminalEvents

\* What one ReadString call can give on those streams.
StreamReads ==
    {DataLine(e) : e \in StreamEvents}
    \cup {[kind |-> "data", payload |-> "[DONE]"],
          [kind |-> "data", payload |-> "malformed"],
          [kind |-> "blank"], [kind |-> "other"],
          [kind |-> "eof"], [kind |-> "ioerr"]}

\* A chunk with the given choices and nothing else.
ChoicesChunk(choices) == [EmptyChunk EXCEPT !.Choices = choices]

\* A stream choice that carries content only.
ContentChoice(index, content) ==
    StreamChoice(index, StreamDelta("", content, << >>), "")

\* Chunks a caller builds itself and that Recv does not produce: an id
\* together with choices, two roles, a finish reason, two choices, content at
\* the largest index, usage alone, two tool calls, an empty negative choice.
DirectChunks ==
    {[EmptyChunk EXCEPT !.ID = "r3", !.Object = "response", !.Created = 3,
                        !.Model = "m3",
                        !.Choices = <<ContentChoice(1, <<"b">>)>>],
     ChoicesChunk(<<StreamChoice(0, StreamDelta("user", << >>, << >>), "")>>),
     ChoicesChunk(<<StreamChoice(0, StreamDelta("system", << >>, << >>), "")>>),
     ChoicesChunk(<<StreamChoice(0, StreamDelta("", << >>, << >>), "stop")>>),
     ChoicesChunk(<<ContentChoice(0, <<"a">>), ContentChoice(1, <<"b">>)>>),
     ChoicesChunk(<<ContentChoice(MaxIndex, <<"a">>)>>),
     [EmptyChunk EXCEPT !.Usage = <<MkUsage(1, 1, 2)>>],
     ChoicesChunk(<<StreamChoice(0,
        StreamDelta("", << >>,
            <<ToolCall("x", "", "function", "h", << >>),
              ToolCall("z", "c3", "function", "k", <<"b">>)>>), "")>>),
     ChoicesChunk(<<StreamChoice(-1, StreamDelta("", << >>, << >>), "")>>)}

\* -------------------------------------------------------------- actions

Init ==
    /\ acc = EmptyAccumulator
    /\ panicked = FALSE
    /\ err = "nil"
    /\ doc = << >>
    /\ shared = << >>
    /\ docCalls = 0
    /\ hist = << >>
    /\ input = << >>
    /\ pos = 0
    /\ out = << >>

\* The state change of one accumulator.AddChunk(chunk); event is << >> or
\* <<e>> with e the event Recv decoded the chunk from.  The document taken
\* before reads the writes made through the arrays it shares; grow says
\* whether the appends of this call found their array full.
Feed(chunk, event) ==
    LET st == AddChunk(acc, chunk)
    IN  /\ acc' = st.a
        /\ panicked' = st.panic
        /\ docCalls' = 0
        /\ hist' = Append(hist, [chunk |-> chunk, event |-> event,
                                 before |-> acc])
        /\ IF doc = << >>
           THEN UNCHANGED <<doc, shared>>
           ELSE \E grow \in BOOLEAN :
                   LET r == SharedAfter(doc[1], shared, acc, chunk, grow)
                   IN  doc' = <<r.doc>> /\ shared' = r.shared

\* A caller feeds a chunk of its own to the accumulator.
AddChunkCall ==
    /\ ~panicked
    /\ Len(hist) < MaxSteps
    /\ \E chunk \in DirectChunks : Feed(chunk, << >>)
    /\ UNCHANGED <<err, input, pos, out>>

\* One iteration of the callers' loop (part_000:84-96, README.md:115-130):
\* chunk, err := stream.Recv(); leave the loop on an error, otherwise
\* accumulator.AddChunk(chunk).
StreamStep ==
    /\ ~panicked
    /\ err = "nil"
    /\ Len(hist) < MaxSteps
    /\ \E reads \in ReadSeqs :
        LET r == Recv(err, reads)
        IN  /\ r.returned
            /\ err' = r.sErr
            /\ IF r.err = "nil"
               THEN Feed(r.chunk[1], r.event)
               ELSE UNCHANGED <<acc, panicked, doc, shared, docCalls, hist>>
    /\ UNCHANGED <<input, pos, out>>

\* resp := accumulator.ToResponse()
ToResponseCall ==
    /\ ~panicked
    /\ LET r == ToResponse(acc)
       IN  /\ doc' = <<r.doc>>
           /\ acc' = r.a
           /\ shared' = SharedBy(r.a)
    /\ docCalls' = IF docCalls < 2 THEN docCalls + 1 ELSE docCalls
    /\ UNCHANGED <<panicked, err, hist, input, pos, out>>

\* The accumulator used through its API and by the receive loop.
Next == AddChunkCall \/ StreamStep

Spec == Init /\ [][Next]_vars

\* The callers' programs: the receive loop, and ToResponse at any point.
NextCaller == StreamStep \/ ToResponseCall

SpecCaller == Init /\ [][NextCaller]_vars

\* The reads not yet consumed.
Pending == SubSeq(input, pos + 1, Len(input))

\* The transport has reported its end or a failure: nothing follows.
Closed == \E i \in 1..Len(input) : input[i].kind \in {"eof", "ioerr"}

\* The transport delivers one more line, its end, or a failure
\* (responses.go:143, the reader over the response body).
Arrive ==
    /\ Len(input) < MaxReads
    /\ ~Closed
    /\ \E r \in StreamReads : input' = Append(input, r)
    /\ UNCHANGED <<acc, panicked, err, doc, shared, docCalls, hist, pos, out>>

\* chunk, err := stream.Recv() at any time, also after an error; a chunk that
\* is returned goes to accumulator.AddChunk (part_000:84-96).  The call is
\* blocked while the reads delivered do not let it return.
RecvCall ==
    /\ ~panicked
    /\ Len(out) < MaxReads + 1
    /\ LET r == Recv(err, Pending)
           used == Len(Pending) - Len(r.rest)
       IN  /\ r.returned
           /\ err' = r.sErr
           /\ pos' = pos + used
           /\ out' = Append(out, [chunk |-> r.chunk, err |-> r.err,
                                  reads |-> SubSeq(Pending, 1, used),
                                  before |-> err])
           /\ IF r.err = "nil"
              THEN Feed(r.chunk[1], r.event)
              ELSE UNCHANGED <<acc, panicked, doc, shared, docCalls, hist>>
    /\ UNCHANGED input

\* A stream read to its end and beyond by a caller that may take a document
\* at any point.
NextStream == Arrive \/ RecvCall \/ ToResponseCall

SpecStream == Init /\ [][NextStream]_vars

\* --------------------------------------------------------------- claims

\* The last AddChunk call and the accumulator before it.
Last == hist[Len(hist)]
Pre == Last.before

\* s is a prefix of t.
IsPrefix(s, t) == Len(s) <= Len(t) /\ SubSeq(t, 1, Len(s)) = s

\* The scalar identity fields of an accumulator.
Identity(a) == <<a.ID, a.Object, a.Created, a.Model>>

\* C1: once the accumulator's ID is not empty, no AddChunk call changes ID,
\* Object, Created or Model, whatever the chunk carries.
C1_IdentityWrittenOnce ==
    (hist # << >> /\ Pre.ID # "") => Identity(acc) = Identity(Pre)

\* C1 witness: a chunk with another non-empty ID was fed to an accumulator
\* that had an ID.
C1_Witness ==
    /\ hist # << >>
    /\ Pre.ID # ""
    /\ Last.chunk.ID \notin {"", Pre.ID}
    /\ Last.chunk.Model # Pre.Model

\* C2 (the claim as stated): after every AddChunk call each choice that
\* existed before the call still exists and its former Content is a prefix
\* of its Content.
C2_ContentAppendOnly ==
    hist # << >> =>
        \A k \in 1..Len(Pre.Choices) :
            /\ k <= Len(acc.Choices)
            /\ IsPrefix(Pre.Choices[k].Message.Content,
                        acc.Choices[k].Message.Content)

\* The accumulator after the first i AddChunk calls.
After(i) == IF i = Len(hist) THEN acc ELSE hist[i + 1].before

\* The call re-created the choice list (responses.go:440-466).
Initialises(h) == h.before.ID = "" /\ h.chunk.ID # ""

\* The content the choices of a chunk carry for choice index k, in order.
RECURSIVE FedContent(_, _)
FedContent(choices, k) ==
    IF choices = << >> THEN << >>
    ELSE (IF Head(choices).Index = k THEN Head(choices).Delta.Content ELSE << >>)
         \o FedContent(Tail(choices), k)

\* The content calls i+1 .. j carry for choice index k, in order.
RECURSIVE FedBetween(_, _, _)
FedBetween(i, j, k) ==
    IF j <= i THEN << >>
    ELSE FedBetween(i, j - 1, k) \o FedContent(hist[j].chunk.Choices, k)

\* C3: from an accumulator whose choice k exists with empty content, the
\* Content of choice k after any further calls that completed is the
\* concatenation, in order, of the fragments those calls carried for index
\* k, none of the calls being the one that initialises the accumulator.
C3_ContentConcatenation ==
    \A i \in 0..Len(hist) : \A j \in i..Len(hist) : \A k \in 0..MaxIndex :
        ( /\ (j = Len(hist) => ~panicked)
          /\ k < Len(After(i).Choices)
          /\ After(i).Choices[k + 1].Message.Content = << >>
          /\ \A m \in (i + 1)..j : ~Initialises(hist[m]) )
        => /\ k < Len(After(j).Choices)
           /\ After(j).Choices[k + 1].Message.Content = FedBetween(i, j, k)

\* C3 witness: choice k existed with empty content, two content-delta
\* chunks for k with fragments "a" then "b" followed, and the content is "ab".
C3_Witness ==
    \E i \in 0..(Len(hist) - 2) : \E k \in 0..MaxIndex :
        /\ k < Len(After(i).Choices)
        /\ After(i).Choices[k + 1].Message.Content = << >>
        /\ hist[i + 1].chunk = ChoicesChunk(<<ContentChoice(k, <<"a">>)>>)
        /\ hist[i + 2].chunk = ChoicesChunk(<<ContentChoice(k, <<"b">>)>>)
        /\ After(i + 2).Choices[k + 1].Message.Content = <<"a", "b">>

\* The call fed the chunk Recv decoded from an event of the given type.
FromEvent(h, type) == h.event # << >> /\ Str(h.event[1], "type") = type

\* The tool calls of choice index k (none when the choice does not exist).
ToolCallsOf(a, k) ==
    IF k >= 0 /\ k < Len(a.Choices) THEN a.Choices[k + 1].ToolCalls ELSE << >>

\* Some tool call of the list has ID x, and each that has it has arguments p.
HasArguments(toolCalls, x, p) ==
    /\ \E i \in 1..Len(toolCalls) : toolCalls[i].ID = x
    /\ \A i \in 1..Len(toolCalls) :
            toolCalls[i].ID = x => toolCalls[i].Function.Arguments = p

\* C4: after an arguments-done event for identity x with a non-empty
\* payload p has been merged, the tool call x of that choice has arguments
\* exactly p, whatever argument deltas came before.
C4_DoneAssigns ==
    ( /\ hist # << >>
      /\ ~panicked
      /\ FromEvent(Last, "response.function_call_arguments.done")
      /\ Last.event[1].arguments # << >> )
    => HasArguments(ToolCallsOf(acc, Last.chunk.Choices[1].Index),
                    Last.event[1].item_id, Last.event[1].arguments)

\* C4 witness: a delta "a" for x, then done "b" for x in the same choice;
\* the arguments are "b".
C4_Witness ==
    /\ Len(hist) >= 2
    /\ ~panicked
    /\ FromEvent(hist[Len(hist) - 1], "response.function_call_arguments.delta")
    /\ FromEvent(Last, "response.function_call_arguments.done")
    /\ hist[Len(hist) - 1].event[1].item_id = Last.event[1].item_id
    /\ hist[Len(hist) - 1].chunk.Choices[1].Index = Last.chunk.Choices[1].Index
    /\ hist[Len(hist) - 1].event[1].delta = <<"a">>
    /\ Last.event[1].arguments = <<"b">>
    /\ HasArguments(ToolCallsOf(acc, Last.chunk.Choices[1].Index),
                    Last.event[1].item_id, <<"b">>)

\* C5 (the claim as stated): after two argument-delta events for the same
\* identity and choice with non-empty fragments f1 then f2, no arguments
\* having been recorded for that identity before, the tool call's arguments
\* are f1 followed by f2.
C5_DeltasConcatenate ==
    ( /\ Len(hist) >= 2
      /\ ~panicked
      /\ FromEvent(hist[Len(hist) - 1], "response.function_call_arguments.delta")
      /\ FromEvent(Last, "response.function_call_arguments.delta")
      /\ hist[Len(hist) - 1].event[1].item_id = Last.event[1].item_id
      /\ hist[Len(hist) - 1].chunk.Choices[1].Index = Last.chunk.Choices[1].Index
      /\ hist[Len(hist) - 1].event[1].delta # << >>
      /\ Last.event[1].delta # << >>
      /\ LET old == ToolCallsOf(hist[Len(hist) - 1].before,
                                Last.chunk.Choices[1].Index)
         IN  \A i \in 1..Len(old) :
                old[i].ID = Last.event[1].item_id
                    => old[i].Function.Arguments = << >> )
    => HasArguments(ToolCallsOf(acc, Last.chunk.Choices[1].Index),
                    Last.event[1].item_id,
                    hist[Len(hist) - 1].event[1].delta \o Last.event[1].delta)

\* A slot as the padding creates it, but for its Index.
IsDefaulted(slot) ==
    /\ slot.Message.Role = "assistant"
    /\ slot.Message.Content = << >>
    /\ slot.FinishReason = ""
    /\ slot.ToolCalls = << >>

\* C6: a chunk with one choice, of index n, merged into an accumulator with
\* fewer than n+1 choices leaves exactly n+1 choices, and the slots added
\* below n are defaulted.
C6_IndexPadding ==
    ( /\ hist # << >>
      /\ Len(Last.chunk.Choices) = 1
      /\ Last.chunk.Choices[1].Index >= 0
      /\ Len(Pre.Choices) < Last.chunk.Choices[1].Index + 1 )
    => /\ Len(acc.Choices) = Last.chunk.Choices[1].Index + 1
       /\ \A p \in (Len(Pre.Choices) + 1)..Last.chunk.Choices[1].Index :
            IsDefaulted(acc.Choices[p])

\* C6 witness: the largest index on an empty accumulator; every slot below
\* it was added by the padding.
C6_Witness ==
    /\ hist # << >>
    /\ Len(Last.chunk.Choices) = 1
    /\ Last.chunk.Choices[1].Index = MaxIndex
    /\ Pre.Choices = << >>
    /\ Len(acc.Choices) = MaxIndex + 1
    /\ \A p \in 1..MaxIndex : IsDefaulted(acc.Choices[p])

\* C7 (the claim as stated): no AddChunk call lowers the number of choices,
\* and every tool call slot of a choice is still there after the call.
C7_NeverTruncates ==
    hist # << >> =>
        /\ Len(acc.Choices) >= Len(Pre.Choices)
        /\ \A k \in 1..Len(Pre.Choices) :
            /\ k <= Len(acc.Choices)
            /\ \A i \in 1..Len(Pre.Choices[k].ToolCalls) :
                /\ i <= Len(acc.Choices[k].ToolCalls)
                /\ acc.Choices[k].ToolCalls[i].ID = Pre.Choices[k].ToolCalls[i].ID

\* C8 (the claim as stated): AddChunk completes, without a panic, on every
\* chunk that Recv returned.
C8_MergeNeverFails ==
    (hist # << >> /\ Last.event # << >>) => ~panicked

\* A step that is a ToResponse call (or leaves every variable unchanged):
\* the only step that keeps hist and err and ends with a document at hand.
ToResponseStep == docCalls' > 0 /\ hist' = hist /\ err' = err

\* C9: a ToResponse call leaves the accumulator as it was, and a call that
\* follows another with no AddChunk in between returns an equal document.
C9_ToResponsePure ==
    [][ToResponseStep => (acc' = acc /\ (docCalls > 0 => doc' = doc))]_vars

\* C9 witness: ToResponse was called twice in a row on the accumulator of a
\* partial stream that holds content and a tool call.
C9_Witness ==
    /\ docCalls = 2
    /\ err = "nil"
    /\ doc = <<Document(acc)>>
    /\ \E k \in 1..Len(acc.Choices) :
        /\ acc.Choices[k].Message.Content # << >>
        /\ acc.Choices[k].ToolCalls # << >>

\* C10 (the claim as stated): once the stream of an identified response has
\* ended normally, the document ToResponse returned is the one Create
\* returns for a body with the same ID, Object, Created, Model, Choices and
\* Usage.
C10_SameAsCreate ==
    (err = "EOF" /\ docCalls > 0 /\ ~panicked /\ acc.ID # "")
    => doc[1] = Create([doc[1] EXCEPT !.OutputText = << >>])

\* The last read a returned Recv call consumed, << >> if it consumed none.
LastRead(o) == IF o.reads = << >> THEN << >> ELSE <<o.reads[Len(o.reads)]>>

\* The read is a data frame with the payload [DONE].
IsDoneLine(r) == r.kind = "data" /\ r.payload = "[DONE]"

\* The Recv call stopped at a read that satisfies P.
StoppedAt(o, P(_)) == LastRead(o) # << >> /\ P(LastRead(o)[1])

\* The read is the transport's end of data (ReadString gives io.EOF).
IsEndOfData(r) == r.kind = "eof"

\* C11: a Recv call that reads the data frame [DONE] returns a nil chunk and
\* io.EOF, which is what a call that reads the transport's end of data
\* returns, and Err() is nil from then on.
C11_DoneIsEndOfData ==
    \A i \in 1..Len(out) :
        StoppedAt(out[i], IsDoneLine) \/ StoppedAt(out[i], IsEndOfData)
        => /\ out[i].chunk = << >>
           /\ out[i].err = "EOF"
           /\ err = "EOF"
           /\ Err(err) = "nil"

\* [DONE] was read after a chunk had been returned and a line skipped.
C11_Witness ==
    \E i \in 2..Len(out) :
        /\ StoppedAt(out[i], IsDoneLine)
        /\ Len(out[i].reads) > 1
        /\ out[1].chunk # << >>
        /\ Err(err) = "nil"

\* The read is a data frame whose payload json.Unmarshal rejects.
IsMalformedLine(r) == r.kind = "data" /\ r.payload = "malformed"

\* C12: a data frame whose payload is not parseable JSON is never passed
\* over: the Recv call that reads it returns a decode error with a nil chunk,
\* Err() then gives that error, and the call changes neither the accumulator
\* nor the document taken before.
C12_DecodeErrorReported ==
    [][\A i \in (Len(out) + 1)..Len(out') :
         (\E j \in 1..Len(out'[i].reads) : IsMalformedLine(out'[i].reads[j]))
         => /\ StoppedAt(out'[i], IsMalformedLine)
            /\ out'[i].chunk = << >>
            /\ out'[i].err = "decode"
            /\ Err(err') = "decode"
            /\ acc' = acc
            /\ doc' = doc]_vars

\* A payload failed to decode after text had been merged and a document taken.
C12_Witness ==
    /\ out # << >>
    /\ StoppedAt(out[Len(out)], IsMalformedLine)
    /\ Err(err) = "decode"
    /\ doc # << >>
    /\ acc.Choices # << >>
    /\ acc.Choices[1].Message.Content # << >>

\* The chunk carries something to merge: a choice, an ID or usage.
CarriesSomething(c) == Len(c.Choices) > 0 \/ c.ID # "" \/ c.Usage # << >>

\* The read is a well-formed event with nothing to merge: an unknown type, or
\* a recognized type without a field that could be extracted.
IsIgnorableLine(r) ==
    r.kind = "data" /\ r.payload = "json" /\ ~CarriesSomething(Decode(r.json))

\* The read is an event of type response.completed or response.incomplete.
IsTerminalLine(r) ==
    /\ r.kind = "data" /\ r.payload = "json"
    /\ Str(r.json, "type") \in {"response.completed", "response.incomplete"}

OnlyEOFAfter(i) ==
    \A k \in (i + 1)..Len(out) :
        out[k].chunk = << >> /\ out[k].err = "EOF" /\ out[k].reads = << >>

\* C14: the Recv call that reads a response.completed or response.incomplete
\* event stops at it; if the event carries a response id or usage the call
\* returns its chunk with a nil error, otherwise it returns io.EOF; every
\* later call returns io.EOF, and no read after the event is consumed.
C14_TerminalEndsStream ==
    /\ \A i \in 1..Len(out) : \A j \in 1..Len(out[i].reads) :
          IsTerminalLine(out[i].reads[j])
          => /\ j = Len(out[i].reads)
             /\ IF CarriesSomething(Decode(out[i].reads[j].json))
                THEN /\ out[i].chunk = <<Decode(out[i].reads[j].json)>>
                     /\ out[i].err = "nil"
                ELSE /\ out[i].chunk = << >>
                     /\ out[i].err = "EOF"
             /\ OnlyEOFAfter(i)
    /\ \A p \in 1..pos : IsTerminalLine(input[p]) => p = pos

\* A terminal event with id and usage was returned, a data frame followed
\* it, and the next call returned io.EOF.
C14_Witness ==
    \E i \in 1..Len(out) :
        /\ StoppedAt(out[i], IsTerminalLine)
        /\ out[i].chunk # << >>
        /\ out[i].chunk[1].ID # ""
        /\ out[i].chunk[1].Usage # << >>
        /\ Len(out) > i
        /\ Len(input) > pos
        /\ input[pos + 1].kind = "data"

\* The read is a terminator: the frame [DONE] or a terminal event.
IsTerminator(r) == IsDoneLine(r) \/ IsTerminalLine(r)

\* C15: once Recv has consumed a terminator it consumes no further read: the
\* terminator is the last read consumed, every later call returns io.EOF
\* whatever the transport would give, and Err() is nil.
C15_NoReadsAfterTerminator ==
    /\ \A p \in 1..pos : IsTerminator(input[p]) => p = pos /\ Err(err) = "nil"
    /\ \A i \in 1..Len(out) :
          (\E j \in 1..Len(out[i].reads) : IsTerminator(out[i].reads[j]))
          => /\ out[i].err \in {"nil", "EOF"}
             /\ OnlyEOFAfter(i)

\* After [DONE] a read failure was waiting in the transport and Recv was
\* called again.
C15_Witness ==
    /\ pos > 0
    /\ IsDoneLine(input[pos])
    /\ Len(input) > pos
    /\ input[pos + 1].kind = "ioerr"
    /\ Len(out) > 1
    /\ StoppedAt(out[Len(out) - 1], IsDoneLine)

\* C16: once a Recv call has returned an error, every later call returns the
\* same error with a nil chunk and consumes no read.
C16_ErrorsAreSticky ==
    \A i \in 1..Len(out) : \A k \in (i + 1)..Len(out) :
        out[i].err # "nil"
        => /\ out[k].err = out[i].err
           /\ out[k].chunk = << >>
           /\ out[k].reads = << >>

\* Recv was called twice after a decode error while a data frame was waiting.
C16_Witness ==
    \E i \in 1..Len(out) :
        /\ out[i].err = "decode"
        /\ Len(out) > i + 1
        /\ Len(input) > pos
        /\ input[pos + 1].kind = "data"
        /\ input[pos + 1].payload = "json"

\* The read is a line Recv discards: blank, or without the prefix "data: ".
IsDiscardedLine(r) == r.kind \in {"blank", "other"}

\* The reads without the discarded lines.
WithoutDiscarded(reads) == SelectSeq(reads, LAMBDA r : ~IsDiscardedLine(r))

\* What n successive Recv calls return on the given reads, each as the chunk
\* and the error, starting with s.err = sErr; a call that the reads do not let
\* return ends the sequence with the error "blocked".
RECURSIVE RecvResults(_, _, _)
RecvResults(sErr, reads, n) ==
    IF n = 0 THEN << >>
    ELSE LET r == Recv(sErr, reads)
         IN  IF ~r.returned THEN <<[chunk |-> << >>, err |-> "blocked"]>>
             ELSE <<[chunk |-> r.chunk, err |-> r.err]>>
                  \o RecvResults(r.sErr, r.rest, n - 1)

\* What the Recv calls made so far returned, each as the chunk and the error.
Returned == [i \in 1..Len(out) |-> [chunk |-> out[i].chunk, err |-> out[i].err]]

\* C17: the chunks and errors that the Recv calls return on a stream are
\* those they return on the same stream with its blank lines and its lines
\* without the prefix "data: " taken out, and no call stops at such a line.
C17_DiscardedLinesInvisible ==
    /\ Returned = RecvResults("nil", WithoutDiscarded(input), Len(out))
    /\ \A i \in 1..Len(out) :
          out[i].reads # << >> => ~IsDiscardedLine(out[i].reads[Len(out[i].reads)])

\* Two chunks were returned with a discarded line between their frames, and
\* the call after them returned the final error.
C17_Witness ==
    \E i \in 2..Len(out) :
        /\ out[i - 1].chunk # << >>
        /\ out[i].chunk # << >>
        /\ IsDiscardedLine(out[i].reads[1])
        /\ Len(out) > i
        /\ out[Len(out)].err # "nil"

\* The last call merged one tool call delta, and nothing else re-created the
\* choices: its chunk has one choice, with a valid index and one tool call.
MergesOneToolCall ==
    /\ hist # << >>
    /\ ~panicked
    /\ ~Initialises(Last)
    /\ Len(Last.chunk.Choices) = 1
    /\ Last.chunk.Choices[1].Index >= 0
    /\ Len(Last.chunk.Choices[1].Delta.ToolCalls) = 1

\* The field of the slot after the update: the delta's when that is not
\* empty, the slot's own otherwise.
Taken(new, old, empty) == IF new # empty THEN new ELSE old

\* C18: a tool call delta d for choice k whose ID some slot of the choice has
\* adds no slot, gives that slot d's non-empty type, name and arguments and
\* leaves its other fields and all other slots as they were; a delta whose ID
\* no slot has appends one slot with d's fields and leaves the others as they
\* were, in their order.
C18_ToolCallReconciliation ==
    MergesOneToolCall
    => LET k == Last.chunk.Choices[1].Index
           d == Last.chunk.Choices[1].Delta.ToolCalls[1]
           old == ToolCallsOf(Pre, k)
           new == ToolCallsOf(acc, k)
           same == {i \in 1..Len(old) : old[i].ID = d.ID}
       IN  IF same # {}
           THEN /\ Len(new) = Len(old)
                /\ \E i \in same :
                      /\ new[i] = ToolCall(
                            old[i].ID, old[i].CallID,
                            Taken(d.Type, old[i].Type, ""),
                            Taken(d.Function.Name, old[i].Function.Name, ""),
                            Taken(d.Function.Arguments,
                                  old[i].Function.Arguments, << >>))
                      /\ \A j \in 1..Len(old) : j # i => new[j] = old[j]
           ELSE /\ Len(new) = Len(old) + 1
                /\ SubSeq(new, 1, Len(old)) = old
                /\ new[Len(new)] = ToolCall(d.ID, d.CallID, d.Type,
                                            d.Function.Name,
                                            d.Function.Arguments)

\* A delta without a name updated the second of two slots, which had a name.
C18_Witness ==
    /\ MergesOneToolCall
    /\ LET k == Last.chunk.Choices[1].Index
           d == Last.chunk.Choices[1].Delta.ToolCalls[1]
           old == ToolCallsOf(Pre, k)
       IN  /\ Len(old) = 2
           /\ old[2].ID = d.ID
           /\ old[2].Function.Name # ""
           /\ d.Function.Name = ""
           /\ d.Function.Arguments # << >>

\* The AddChunk calls so far that merged a tool call delta with the empty ID
\* into choice k and did not re-create the choices.
EmptyIDCalls(k) ==
    {i \in 1..Len(hist) :
        /\ ~Initialises(hist[i])
        /\ \E c \in 1..Len(hist[i].chunk.Choices) :
              /\ hist[i].chunk.Choices[c].Index = k
              /\ \E t \in 1..Len(hist[i].chunk.Choices[c].Delta.ToolCalls) :
                    hist[i].chunk.Choices[c].Delta.ToolCalls[t].ID = ""}

\* C19: in every state the tool calls of one choice have different IDs, the
\* empty ID included, so that at most one slot of a choice has the empty ID.
C19_ToolCallIDsUnique ==
    \A c \in 1..Len(acc.Choices) :
        \A i, j \in 1..Len(acc.Choices[c].ToolCalls) :
            acc.Choices[c].ToolCalls[i].ID = acc.Choices[c].ToolCalls[j].ID
            => i = j

\* Two deltas with the empty ID were merged into choice 0, which has one slot
\* with the empty ID and a slot with another ID.
C19_Witness ==
    /\ ~panicked
    /\ Cardinality(EmptyIDCalls(0)) >= 2
    /\ Len(ToolCallsOf(acc, 0)) = 2
    /\ \E i \in 1..2 : ToolCallsOf(acc, 0)[i].ID = ""

\* The AddChunk calls so far whose chunk carried usage.
UsageCalls == {i \in 1..Len(hist) : hist[i].chunk.Usage # << >>}

\* C20: the accumulator's Usage is the Usage of the last chunk that carried
\* one, and nil if none did.
C20_UsageLastWriteWins ==
    acc.Usage = IF UsageCalls = {} THEN << >>
                ELSE hist[CHOOSE i \in UsageCalls :
                             \A j \in UsageCalls : j <= i].chunk.Usage

\* Two chunks with different usage were merged, then a chunk without usage.
C20_Witness ==
    /\ \E i, j \in UsageCalls :
          i < j /\ hist[i].chunk.Usage # hist[j].chunk.Usage
    /\ Len(hist) \notin UsageCalls
    /\ acc.Usage # << >>

\* The chunk carries an identity and nothing else, as Recv decodes it from
\* response.created and response.in_progress.
IsIdentityOnly(c) == c.ID # "" /\ Len(c.Choices) = 0 /\ c.Usage = << >>

\* C21: an identity-only chunk fed to an accumulator that has an ID changes
\* no field of it, and the same identity-only chunk fed twice in a row leaves
\* the accumulator as feeding it once does.
C21_IdentityIdempotent ==
    hist # << >> /\ IsIdentityOnly(Last.chunk)
    => /\ Pre.ID # "" => acc = Pre
       /\ Len(hist) >= 2 /\ hist[Len(hist) - 1].chunk = Last.chunk => acc = Pre

\* An identity-only chunk with another ID was fed to an accumulator that had
\* an ID and content.
C21_Witness ==
    /\ hist # << >>
    /\ IsIdentityOnly(Last.chunk)
    /\ Pre.ID # ""
    /\ Pre.ID # Last.chunk.ID
    /\ \E k \in 1..Len(Pre.Choices) : Pre.Choices[k].Message.Content # << >>

\* C22: an AddChunk call changes no field of the document that ToResponse
\* returned before it, as the holder of the document reads it, the tool calls
\* of its choices included.
C22_DocumentImmutable ==
    [][doc # << >> /\ hist' # hist => doc' = doc]_vars

\* The chunk supplies a role for choice index k.
SuppliesRole(chunk, k) ==
    \E c \in 1..Len(chunk.Choices) :
        chunk.Choices[c].Index = k /\ chunk.Choices[c].Delta.Role # ""

\* A chunk before the last call supplied a role for choice index k, and no
\* call after it re-created the choices.
RoleSuppliedBefore(k) ==
    \E m \in 1..(Len(hist) - 1) :
        /\ SuppliesRole(hist[m].chunk, k)
        /\ \A n \in (m + 1)..Len(hist) : ~Initialises(hist[n])

\* The role of choice index k, which exists.
RoleOf(a, k) == a.Choices[k + 1].Message.Role

\* C23: once a chunk has supplied a role for a choice, a later chunk that
\* supplies a role for that choice does not change it.
C23_RoleFirstWriteWins ==
    hist # << >> /\ ~panicked
    => \A k \in 0..(Len(Pre.Choices) - 1) :
          SuppliesRole(Last.chunk, k) /\ RoleSuppliedBefore(k)
          => RoleOf(acc, k) = RoleOf(Pre, k)

\* C24: a delta with a name, for an identity whose slot in that choice has a
\* name already, does not change the slot's name.
C24_NameFirstWriteWins ==
    MergesOneToolCall
    => LET k == Last.chunk.Choices[1].Index
           d == Last.chunk.Choices[1].Delta.ToolCalls[1]
           old == ToolCallsOf(Pre, k)
           new == ToolCallsOf(acc, k)
       IN  \A i \in 1..Len(old) :
              /\ old[i].ID = d.ID
              /\ old[i].Function.Name # ""
              /\ d.Function.Name # ""
              => new[i].Function.Name = old[i].Function.Name

\* The content of choice index k (empty when the choice does not exist).
ContentAt(a, k) ==
    IF k >= 0 /\ k < Len(a.Choices) THEN a.Choices[k + 1].Message.Content
    ELSE << >>

\* C25: the chunk Recv returns for a response.output_text.delta event with
\* an output index has that index as its choice index, and AddChunk appends
\* the event's fragment to the content of that choice.
C25_TextDeltaIndex ==
    \A n \in 1..Len(hist) :
        FromEvent(hist[n], "response.output_text.delta")
        /\ Has(hist[n].event[1], "output_index")
        => LET k == IntOf(hist[n].event[1].output_index)
           IN  /\ hist[n].chunk.Choices[1].Index = k
               /\ ContentAt(After(n), k)
                  = ContentAt(hist[n].before, k) \o Txt(hist[n].event[1], "delta")

\* The choice at each position of the list has that position as its Index.
Positional(choices) == \A i \in 1..Len(choices) : choices[i].Index = i - 1

\* C26: in every state the accumulator's choices are positional, and so are
\* those of the document ToResponse builds from it.
C26_ChoicesPositional ==
    Positional(acc.Choices) /\ Positional(ToResponse(acc).doc.Choices)

\* The first chunk fed carried an ID and no choices, and no chunk fed since
\* has a negative choice index.
CreatedFirst ==
    /\ hist # << >>
    /\ hist[1].chunk.ID # ""
    /\ Len(hist[1].chunk.Choices) = 0
    /\ \A n \in 1..Len(hist) : \A c \in 1..Len(hist[n].chunk.Choices) :
          hist[n].chunk.Choices[c].Index >= 0

\* C27: when the first chunk carried an ID and no choices and the later ones
\* have no negative index, no call panics or shortens the choice list, a
\* choice's content or a choice's tool call list: the content before the
\* call is a prefix of the content after it; and the choices are positional.
C27_CreatedFirstIsMonotone ==
    CreatedFirst
    => /\ ~panicked
       /\ Positional(acc.Choices)
       /\ \A n \in 1..Len(hist) :
             /\ Len(hist[n].before.Choices) <= Len(After(n).Choices)
             /\ \A i \in 1..Len(hist[n].before.Choices) :
                   /\ IsPrefix(hist[n].before.Choices[i].Message.Content,
                               After(n).Choices[i].Message.Content)
                   /\ Len(hist[n].before.Choices[i].ToolCalls)
                      <= Len(After(n).Choices[i].ToolCalls)

\* After a first chunk with an ID and no choices, content was appended and a
\* chunk with an ID and choices was fed.
C27_Witness ==
    /\ CreatedFirst
    /\ Len(hist) = MaxSteps
    /\ Last.chunk.ID # ""
    /\ Len(Last.chunk.Choices) > 0
    /\ Pre.Choices[1].Message.Content # << >>
    /\ Len(acc.Choices) > 1

\* C28: after a response.tool_call.created or response.tool_call.in_progress
\* event for a choice without tool calls, followed by a response.tool_call.id
\* event with id X for the same output index, both merged, the choice has
\* exactly one tool call and its ID is X.
C28_CreatedSlotPopulated ==
    \A n \in 2..Len(hist) :
        /\ \/ FromEvent(hist[n - 1], "response.tool_call.created")
           \/ FromEvent(hist[n - 1], "response.tool_call.in_progress")
        /\ FromEvent(hist[n], "response.tool_call.id")
        /\ hist[n - 1].chunk.Choices[1].Index = hist[n].chunk.Choices[1].Index
        /\ hist[n].chunk.Choices[1].Index >= 0
        /\ ToolCallsOf(hist[n - 1].before, hist[n].chunk.Choices[1].Index) = << >>
        => LET toolCalls == ToolCallsOf(After(n), hist[n].chunk.Choices[1].Index)
           IN  /\ Len(toolCalls) = 1
               /\ toolCalls[1].ID = Str(hist[n].event[1], "id")

\* The chunks of the non-ignorable data frames among the reads that precede
\* the first [DONE], terminal event, undecodable payload, end of data or read
\* failure, in their order; with the terminal event's own chunk at the end
\* when inclusive holds and the event carries an id or usage.
RECURSIVE FrameChunks(_, _)
FrameChunks(reads, inclusive) ==
    IF reads = << >> THEN << >>
    ELSE LET r == Head(reads)
         IN  IF IsDiscardedLine(r) THEN FrameChunks(Tail(reads), inclusive)
             ELSE IF r.kind \in {"eof", "ioerr"} \/ IsDoneLine(r)
                     \/ IsMalformedLine(r)
             THEN << >>
             ELSE IF IsTerminalLine(r)
             THEN IF inclusive /\ ~IsIgnorableLine(r)
                  THEN <<Decode(r.json)>> ELSE << >>
             ELSE IF IsIgnorableLine(r)
             THEN FrameChunks(Tail(reads), inclusive)
             ELSE <<Decode(r.json)>> \o FrameChunks(Tail(reads), inclusive)

\* The chunks the Recv calls so far returned, in order.
RECURSIVE ChunksOf(_)
ChunksOf(results) ==
    IF results = << >> THEN << >>
    ELSE Head(results).chunk \o ChunksOf(Tail(results))

\* The reads Recv has consumed.
Consumed == SubSeq(input, 1, pos)

\* C29 as stated: the chunks returned by the Recv calls are, one for one and
\* in order, those of the non-ignorable data frames consumed that precede
\* the first terminator, decode error or transport error.
C29_FramesBeforeTerminator ==
    ChunksOf(out) = FrameChunks(Consumed, FALSE)

\* C29 (amended): the chunks returned by the Recv calls are, one for one and
\* in order, those of the non-ignorable data frames consumed up to the first
\* terminator, decode error or transport error, the terminal event itself
\* included when it carries an id or usage.
C29_OrderPreserved ==
    ChunksOf(out) = FrameChunks(Consumed, TRUE)

\* Two text frames and a terminal event with an id were returned, in order.
C29_Witness ==
    /\ Len(ChunksOf(out)) = 3
    /\ ChunksOf(out)[1] # ChunksOf(out)[2]
    /\ ChunksOf(out)[3].ID # ""
    /\ IsTerminalLine(input[pos])

\* C30: no AddChunk call changes the CallID of a tool call that existed
\* before it, unless the call re-creates the choices and the tool call is
\* gone.
C30_CallIDFixed ==
    \A n \in 1..Len(hist) :
        ~Initialises(hist[n])
        => \A i \in 1..Len(hist[n].before.Choices) :
              \A j \in 1..Len(hist[n].before.Choices[i].ToolCalls) :
                  /\ i <= Len(After(n).Choices)
                  /\ j <= Len(After(n).Choices[i].ToolCalls)
                  /\ After(n).Choices[i].ToolCalls[j].CallID
                     = hist[n].before.Choices[i].ToolCalls[j].CallID

\* A delta with a call_id was merged into the slot of its identity, which
\* had been created without one.
C30_Witness ==
    /\ MergesOneToolCall
    /\ LET k == Last.chunk.Choices[1].Index
           d == Last.chunk.Choices[1].Delta.ToolCalls[1]
           old == ToolCallsOf(Pre, k)
       IN  /\ d.CallID # ""
           /\ \E i \in 1..Len(old) : old[i].ID = d.ID /\ old[i].CallID = ""

====
